---- MODULE Spec2Model ----
(***************************************************************************)
(* A model of the two components of the integration engine:                *)
(*   engine/components/integration_logic_layer.py  IntegrationLogicLayer   *)
(*   engine/components/api_discovery_engine.py     APIDiscoveryEngine      *)
(*                                                                         *)
(* Spec      the integration component: one IntegrationLogicLayer object,  *)
(*           the configuration file it reads and rewrites, and throw-away  *)
(*           fresh instances that reload the same file.                    *)
(* DiscSpec  the discovery component: discover_apis, _parse_api_specs and  *)
(*           get_api_endpoint against simulated HTTP responses.            *)
(*                                                                         *)
(* Python values are records [kind, s, items]: a str carries s, a dict     *)
(* carries items (its key/value pairs in insertion order), a set is the    *)
(* sample of a value json cannot serialise.  The file's text is the        *)
(* sequence of chunks json.dump writes, with the white-space chunks left   *)
(* out and the ': ' chunk merged into the key before it.                   *)
(***************************************************************************)
EXTENDS Naturals, Sequences, FiniteSets, TLC

VARIABLES api_map, file, call, disc

vars == <<api_map, file, call, disc>>

(* ------------------------- Python values ------------------------------ *)

Str(s) == [kind |-> "str", s |-> s, items |-> <<>>]

SetObj == [kind |-> "set", s |-> "", items |-> <<>>]

Dict(items) == [kind |-> "dict", s |-> "", items |-> items]

Item(k, v) == [k |-> k, v |-> v]

NoneVal == [kind |-> "none", s |-> "", items |-> <<>>]

\* key in d
Has(d, k) == \E i \in DOMAIN d.items : d.items[i].k = k

\* d.get(k): the value stored under k, None when k is no key
Lookup(d, k) ==
    IF Has(d, k)
    THEN d.items[CHOOSE i \in DOMAIN d.items : d.items[i].k = k].v
    ELSE NoneVal

\* d[k] = v: an existing key keeps its place, a new key goes last
SetItem(d, k, v) ==
    IF Has(d, k)
    THEN Dict([i \in DOMAIN d.items |->
                 IF d.items[i].k = k THEN Item(k, v) ELSE d.items[i]])
    ELSE Dict(Append(d.items, Item(k, v)))

Keys(d) == {d.items[i].k : i \in DOMAIN d.items}

(* ------------------------- json.dump / json.load ---------------------- *)

Tok(t, s) == [t |-> t, s |-> s]

RECURSIVE Encode(_)
RECURSIVE EncodeItems(_, _)

\* The chunks json's encoder yields for v, and whether it got to the end:
\* a value it cannot serialise raises TypeError after the chunks before it.
Encode(v) ==
    CASE v.kind = "str" -> [ok |-> TRUE, toks |-> <<Tok("str", v.s)>>]
      [] v.kind = "dict" ->
           IF v.items = <<>>
           THEN [ok |-> TRUE, toks |-> <<Tok("{}", "")>>]
           ELSE LET r == EncodeItems(v.items, 1)
                IN  IF r.ok
                    THEN [ok |-> TRUE,
                          toks |-> <<Tok("{", "")>> \o r.toks \o <<Tok("}", "")>>]
                    ELSE [ok |-> FALSE, toks |-> <<Tok("{", "")>> \o r.toks]
      [] OTHER -> [ok |-> FALSE, toks |-> <<>>]

EncodeItems(items, i) ==
    IF i > Len(items)
    THEN [ok |-> TRUE, toks |-> <<>>]
    ELSE LET head == (IF i > 1 THEN <<Tok(",", "")>> ELSE <<>>)
                       \o <<Tok("key", items[i].k)>>
             e    == Encode(items[i].v)
         IN  IF ~e.ok
             THEN [ok |-> FALSE, toks |-> head \o e.toks]
             ELSE LET rest == EncodeItems(items, i + 1)
                  IN  [ok |-> rest.ok, toks |-> head \o e.toks \o rest.toks]

ParseFail == [ok |-> FALSE, val |-> NoneVal, next |-> 0]

RECURSIVE ParseValue(_, _)
RECURSIVE ParseMembers(_, _, _)

\* json's decoder on the chunks from position p: the value and the position
\* after it, or a failure (JSONDecodeError).
ParseValue(toks, p) ==
    IF p > Len(toks)
    THEN ParseFail
    ELSE CASE toks[p].t = "str" ->
                [ok |-> TRUE, val |-> Str(toks[p].s), next |-> p + 1]
           [] toks[p].t = "{}" ->
                [ok |-> TRUE, val |-> Dict(<<>>), next |-> p + 1]
           [] toks[p].t = "{" -> ParseMembers(toks, p + 1, Dict(<<>>))
           [] OTHER -> ParseFail

ParseMembers(toks, p, acc) ==
    IF p > Len(toks) \/ toks[IF p > Len(toks) THEN 1 ELSE p].t # "key"
    THEN ParseFail
    ELSE LET v == ParseValue(toks, p + 1)
         IN  IF ~v.ok \/ v.next > Len(toks)
             THEN ParseFail
             ELSE LET acc2 == SetItem(acc, toks[p].s, v.val)
                  IN  CASE toks[v.next].t = "}" ->
                             [ok |-> TRUE, val |-> acc2, next |-> v.next + 1]
                        [] toks[v.next].t = "," ->
                             ParseMembers(toks, v.next + 1, acc2)
                        [] OTHER -> ParseFail

\* json.load on a whole file: one value and nothing after it
Loads(toks) ==
    LET r == ParseValue(toks, 1)
    IN  IF r.ok /\ r.next = Len(toks) + 1 THEN r ELSE ParseFail

(* ------------------------- IntegrationLogicLayer ---------------------- *)

Names == {"svc", "pay"}

OpenapiCfg == Dict(<<Item("type", Str("openapi"))>>)

SwaggerCfg == Dict(<<Item("type", Str("swagger"))>>)

\* a configuration without a "type"
EmptyCfg == Dict(<<>>)

\* a configuration of another type that holds a value json cannot serialise
HookCfg == Dict(<<Item("type", Str("graphql")), Item("hook", SetObj)>>)

Configs == {OpenapiCfg, SwaggerCfg, EmptyCfg, HookCfg}

NoFile == [exists |-> FALSE, content |-> <<>>]

FileOf(toks) == [exists |-> TRUE, content |-> toks]

\* The configuration file as the program may find it at start: missing,
\* empty (not JSON), or the mapping of one API written by an earlier run.
InitFiles ==
    {NoFile, FileOf(<<>>),
     FileOf(Encode(Dict(<<Item("svc", SwaggerCfg)>>)).toks)}

\* What open() may do besides succeeding.
LoadFaults == {"none", "perm"}

UpdateFaults == {"none", "open_error", "write_error"}

NoCall ==
    [op |-> "init", name |-> "", cfg |-> NoneVal, fault |-> "none",
     raised |-> FALSE, exc |-> "", logs |-> <<>>, hooks |-> <<>>,
     afterLoad |-> FALSE, fresh |-> NoneVal]

\* LoadOutcome with a slip: the mapping is reset when the file is not JSON
LoadOutcomeResets(map, f, fault) ==
    IF ~f.exists
    THEN [map |-> map, exc |-> "FileNotFoundError", raised |-> FALSE,
          logs |-> <<"error">>]
    ELSE IF fault = "perm"
    THEN [map |-> map, exc |-> "PermissionError", raised |-> TRUE,
          logs |-> <<>>]
    ELSE LET r == Loads(f.content)
         IN  IF r.ok
             THEN [map |-> r.val, exc |-> "", raised |-> FALSE, logs |-> <<>>]
             ELSE [map |-> Dict(<<>>), exc |-> "JSONDecodeError",
                   raised |-> FALSE, logs |-> <<"error">>]

\* load_api_config on an object whose mapping is map: the mapping after the
\* call, the exception met, whether it reaches the caller, and the log lines.
LoadOutcome(map, f, fault) ==
    IF ~f.exists
    THEN [map |-> map, exc |-> "FileNotFoundError", raised |-> FALSE,
          logs |-> <<"error">>]
    ELSE IF fault = "perm"
    THEN [map |-> map, exc |-> "PermissionError", raised |-> TRUE,
          logs |-> <<>>]
    ELSE LET r == Loads(f.content)
         IN  IF r.ok
             THEN [map |-> r.val, exc |-> "", raised |-> FALSE, logs |-> <<>>]
             ELSE [map |-> map, exc |-> "JSONDecodeError", raised |-> FALSE,
                   logs |-> <<"error">>]

\* UpdateOutcome with a slip: the mapping is set only after the write, so a
\* failed write leaves it as it was
UpdateOutcomeRollsBack(map, f, name, cfg, fault) ==
    LET m1 == SetItem(map, name, cfg)
    IN  IF fault = "open_error"
        THEN [map |-> map, file |-> f, exc |-> "OSError",
              logs |-> <<"error">>]
        ELSE IF fault = "write_error"
        THEN [map |-> map, file |-> FileOf(<<>>), exc |-> "OSError",
              logs |-> <<"error">>]
        ELSE LET e == Encode(m1)
             IN  [map |-> IF e.ok THEN m1 ELSE map, file |-> FileOf(e.toks),
                  exc |-> IF e.ok THEN "" ELSE "TypeError",
                  logs |-> IF e.ok THEN <<"info">> ELSE <<"error">>]

\* update_api_config: the mapping and the file after the call.  open(.., "w")
\* empties the file before json.dump writes its chunks; closing the file
\* flushes the chunks written before an exception.
UpdateOutcome(map, f, name, cfg, fault) ==
    LET m1 == SetItem(map, name, cfg)
    IN  IF fault = "open_error"
        THEN [map |-> m1, file |-> f, exc |-> "OSError",
              logs |-> <<"error">>]
        ELSE IF fault = "write_error"
        THEN [map |-> m1, file |-> FileOf(<<>>), exc |-> "OSError",
              logs |-> <<"error">>]
        ELSE LET e == Encode(m1)
             IN  [map |-> m1, file |-> FileOf(e.toks),
                  exc |-> IF e.ok THEN "" ELSE "TypeError",
                  logs |-> IF e.ok THEN <<"info">> ELSE <<"error">>]

\* Dispatch with a slip: "else" where the code has "elif", so every type
\* other than "openapi" goes to the Swagger hook
DispatchElse(map, name) ==
    IF Has(map, name)
    THEN LET config == Lookup(map, name)
         IN  IF Lookup(config, "type") = Str("openapi")
             THEN <<"_integrate_openapi_api">>
             ELSE <<"_integrate_swagger_api">>
    ELSE <<>>

\* integrate_api: the hooks called for the API called name
Dispatch(map, name) ==
    IF Has(map, name)
    THEN LET config == Lookup(map, name)
         IN  IF Lookup(config, "type") = Str("openapi")
             THEN <<"_integrate_openapi_api">>
             ELSE IF Lookup(config, "type") = Str("swagger")
             THEN <<"_integrate_swagger_api">>
             ELSE <<>>
    ELSE <<>>

LoadApiConfig(fault) ==
    LET o == LoadOutcome(api_map, file, fault)
    IN  /\ api_map' = o.map
        /\ call' = [NoCall EXCEPT !.op = "load", !.fault = fault,
                       !.raised = o.raised, !.exc = o.exc, !.logs = o.logs]
        /\ UNCHANGED <<file, disc>>

UpdateApiConfig(name, cfg, fault) ==
    LET o == UpdateOutcome(api_map, file, name, cfg, fault)
    IN  /\ api_map' = o.map
        /\ file' = o.file
        /\ call' = [NoCall EXCEPT !.op = "update", !.name = name, !.cfg = cfg,
                       !.fault = fault, !.exc = o.exc, !.logs = o.logs,
                       !.afterLoad = (call.op = "load")]
        /\ UNCHANGED disc

IntegrateApi(name) ==
    LET h == Dispatch(api_map, name)
    IN  /\ call' = [NoCall EXCEPT !.op = "integrate", !.name = name,
                       !.hooks = h,
                       !.logs = [i \in DOMAIN h |-> "info"]]
        /\ UNCHANGED <<api_map, file, disc>>

\* IntegrationLogicLayer().load_api_config(): a fresh object reloads the file
FreshLoadApiConfig(fault) ==
    LET o == LoadOutcome(Dict(<<>>), file, fault)
    IN  /\ call' = [NoCall EXCEPT !.op = "fresh_load", !.fault = fault,
                       !.raised = o.raised, !.exc = o.exc, !.logs = o.logs,
                       !.fresh = o.map]
        /\ UNCHANGED <<api_map, file, disc>>

(* ------------------------- APIDiscoveryEngine ------------------------- *)

\* A dict of the registry's JSON is a function from its keys.
EmptyDict == [k \in {} |-> ""]

\* d.get(k, default)
Get(d, k, default) == IF k \in DOMAIN d THEN d[k] ELSE default

\* x in list
In(x, list) == \E i \in DOMAIN list : list[i] = x

\* The most entries in one registry's "apis" list.
MaxApis == 2

api_endpoints ==
    <<"https://api.swaggerhub.com/v1/apis",
      "https://rapidapihub.com/api/endpoints">>

Field(k, values) == {EmptyDict} \cup {k :> v : v \in values}

\* Raw registry entries: every field present or missing.
RawEntries ==
    {n @@ t @@ u @@ a @@ l @@ d :
        n \in Field("name", {"svc"}),
        t \in Field("tags", {<<>>, <<"openapi">>, <<"swagger">>,
                             <<"swagger", "openapi">>, <<"rest">>}),
        u \in Field("specUrl", {"http://x/spec.json"}),
        a \in Field("authType", {"oauth2"}),
        l \in Field("limits", {{<<"rpm", "60">>}}),
        d \in Field("docUrl", {"http://x/docs"})}

\* The entries the simulated registries list.
ListedEntries ==
    {("name" :> "svc") @@ ("endpoint" :> "http://svc/api")
        @@ ("tags" :> <<"openapi">>) @@ ("specUrl" :> "http://x/spec.json"),
     ("name" :> "pay") @@ ("tags" :> <<"swagger">>) @@ ("authType" :> "oauth2"),
     ("docUrl" :> "http://x/docs")}

RECURSIVE ListsUpTo(_)
ListsUpTo(n) ==
    IF n = 0
    THEN {<<>>}
    ELSE LET shorter == ListsUpTo(n - 1)
         IN  shorter \cup {Append(l, e) : l \in shorter, e \in ListedEntries}

\* JSON bodies: an object without "apis", or one with a list of entries.
Bodies == {"total" :> "0"} \cup {"apis" :> l : l \in ListsUpTo(MaxApis)}

Statuses == {200, 300, 404, 503}

\* the characters of the strings the Location header and the suffix use
Chars(s) ==
    CASE s = "/v2/spec" -> <<"/", "v", "2", "/", "s", "p", "e", "c">>
      [] s = "https://h/v2?x#f" ->
           <<"h", "t", "t", "p", "s", ":", "/", "/", "h", "/", "v", "2",
             "?", "x", "#", "f">>
      [] s = "//h/p" -> <<"/", "/", "h", "/", "p">>
      [] s = "/a#f?b" -> <<"/", "a", "#", "f", "?", "b">>
      [] s = "v2/s;p=1" -> <<"v", "2", "/", "s", ";", "p", "=", "1">>
      [] s = "/a;b/c" -> <<"/", "a", ";", "b", "/", "c">>
      [] s = "?format=openapi" ->
           <<"?", "f", "o", "r", "m", "a", "t", "=", "o", "p", "e", "n",
             "a", "p", "i">>
      [] OTHER -> <<>>

Locations ==
    {Chars(s) : s \in {"/v2/spec", "https://h/v2?x#f", "//h/p", "/a#f?b",
                       "v2/s;p=1", "/a;b/c", ""}}

Response(transport, status, body, headers) ==
    [transport |-> transport, status |-> status, body |-> body,
     headers |-> headers]

\* session.get raised (no response), or a response came back; the body of
\* a 4xx or 5xx response is never read and is left empty
RegistryResponses ==
    {Response(TRUE, 0, EmptyDict, EmptyDict)}
      \cup {Response(FALSE, st, EmptyDict, EmptyDict) :
              st \in {x \in Statuses : x >= 400}}
      \cup {Response(FALSE, st, b, EmptyDict) :
              st \in {x \in Statuses : x < 400}, b \in Bodies}

EndpointResponses ==
    {Response(TRUE, 0, EmptyDict, EmptyDict)}
      \cup {Response(FALSE, st, EmptyDict, h) :
              st \in Statuses, h \in Field("Location", Locations)}

\* response.raise_for_status(): HTTPError for a 4xx or 5xx status
RaisesForStatus(status) == status >= 400 /\ status < 600

\* session.get(..) or raise_for_status() raised a RequestException
RequestFails(r) == r.transport \/ RaisesForStatus(r.status)

\* ParseApiSpecsOf with a slip: the "swagger" tag is looked for first
ParseApiSpecsSwaggerFirst(api_data) ==
    LET tags  == Get(api_data, "tags", <<>>)
        typed == IF In("swagger", tags)
                 THEN ("type" :> "swagger")
                        @@ ("url" :> Get(api_data, "specUrl", ""))
                 ELSE IF In("openapi", tags)
                 THEN ("type" :> "openapi")
                        @@ ("url" :> Get(api_data, "specUrl", ""))
                 ELSE EmptyDict
    IN  typed @@ ("authentication" :> Get(api_data, "authType", "none"))
              @@ ("rate_limits" :> Get(api_data, "limits", {}))

\* _parse_api_specs
ParseApiSpecsOf(api_data) ==
    LET tags  == Get(api_data, "tags", <<>>)
        typed == IF In("openapi", tags)
                 THEN ("type" :> "openapi")
                        @@ ("url" :> Get(api_data, "specUrl", ""))
                 ELSE IF In("swagger", tags)
                 THEN ("type" :> "swagger")
                        @@ ("url" :> Get(api_data, "specUrl", ""))
                 ELSE EmptyDict
    IN  typed @@ ("authentication" :> Get(api_data, "authType", "none"))
              @@ ("rate_limits" :> Get(api_data, "limits", {}))

\* the api_info built for one entry of data["apis"]
ApiInfo(api_data) ==
    [name |-> Get(api_data, "name", ""),
     endpoint |-> Get(api_data, "endpoint", ""),
     documentation_url |-> Get(api_data, "docUrl", ""),
     specs |-> ParseApiSpecsOf(api_data)]

\* the inner loop: one api_info appended per entry, in order
RECURSIVE AppendInfos(_, _, _)
AppendInfos(discoveredApis, apis, j) ==
    IF j > Len(apis)
    THEN discoveredApis
    ELSE AppendInfos(Append(discoveredApis, ApiInfo(apis[j])), apis, j + 1)

\* DiscoverStep with a slip: a failed registry empties the list
DiscoverStepClears(acc, endpoint, r) ==
    IF RequestFails(r)
    THEN [acc EXCEPT !.logs = Append(@, endpoint), !.apis = <<>>]
    ELSE IF "apis" \in DOMAIN r.body
    THEN [acc EXCEPT !.apis = AppendInfos(@, r.body["apis"], 1)]
    ELSE acc

\* DiscoverStep with a slip: each registry's records replace the list
DiscoverStepOverwrites(acc, endpoint, r) ==
    IF RequestFails(r)
    THEN [acc EXCEPT !.logs = Append(@, endpoint)]
    ELSE IF "apis" \in DOMAIN r.body
    THEN [acc EXCEPT !.apis = AppendInfos(<<>>, r.body["apis"], 1)]
    ELSE acc

\* One turn of the loop over api_endpoints: acc is discoveredApis and the
\* log so far, r the outcome of the GET of endpoint.
DiscoverStep(acc, endpoint, r) ==
    IF RequestFails(r)
    THEN [acc EXCEPT !.logs = Append(@, endpoint)]
    ELSE IF "apis" \in DOMAIN r.body
    THEN [acc EXCEPT !.apis = AppendInfos(@, r.body["apis"], 1)]
    ELSE acc

RECURSIVE DiscoverFrom(_, _, _)
DiscoverFrom(acc, resps, i) ==
    IF i > Len(api_endpoints)
    THEN acc
    ELSE DiscoverFrom(DiscoverStep(acc, api_endpoints[i], resps[i]), resps,
                      i + 1)

(* urllib.parse.urlparse(location).path, on a string as its characters *)

Alpha ==
    {"a", "b", "c", "d", "e", "f", "g", "h", "i", "j", "k", "l", "m", "n",
     "o", "p", "q", "r", "s", "t", "u", "v", "w", "x", "y", "z"}

Digits == {"0", "1", "2", "3", "4", "5", "6", "7", "8", "9"}

SchemeChars == Alpha \cup Digits \cup {"+", "-", "."}

\* schemes of urllib.parse.uses_params that the sample locations can carry
UsesParams ==
    {<<>>, <<"h", "t", "t", "p">>, <<"h", "t", "t", "p", "s">>,
     <<"f", "t", "p">>}

\* s.find(c, from): the first index >= from holding a character of cs, else 0
FindFrom(s, cs, from) ==
    IF \E i \in from..Len(s) : s[i] \in cs
    THEN CHOOSE i \in from..Len(s) :
             s[i] \in cs /\ \A k \in from..(i - 1) : s[k] \notin cs
    ELSE 0

\* s.rfind(c): the last index holding c, else 0
RFind(s, c) ==
    IF \E i \in 1..Len(s) : s[i] = c
    THEN CHOOSE i \in 1..Len(s) :
             s[i] = c /\ \A k \in (i + 1)..Len(s) : s[k] # c
    ELSE 0

Before(s, i) == IF i = 0 THEN s ELSE SubSeq(s, 1, i - 1)

\* urlsplit: scheme, then //netloc, then #fragment and ?query cut off
UrlSplit(url) ==
    LET c      == FindFrom(url, {":"}, 1)
        hasSch == c > 1 /\ url[1] \in Alpha
                    /\ \A k \in 1..(c - 1) : url[k] \in SchemeChars
        scheme == IF hasSch THEN SubSeq(url, 1, c - 1) ELSE <<>>
        u1     == IF hasSch THEN SubSeq(url, c + 1, Len(url)) ELSE url
        hasNet == Len(u1) >= 2 /\ u1[1] = "/" /\ u1[2] = "/"
        delim  == IF FindFrom(u1, {"/", "?", "#"}, 3) = 0
                  THEN Len(u1) + 1
                  ELSE FindFrom(u1, {"/", "?", "#"}, 3)
        u2     == IF hasNet THEN SubSeq(u1, delim, Len(u1)) ELSE u1
        u3     == Before(u2, FindFrom(u2, {"#"}, 1))
        u4     == Before(u3, FindFrom(u3, {"?"}, 1))
    IN  [scheme |-> scheme, path |-> u4]

\* _splitparams: the parameters after ';' in the last segment are cut off
SplitParams(url) ==
    LET slash == RFind(url, "/")
        i     == FindFrom(url, {";"}, IF slash = 0 THEN 1 ELSE slash)
    IN  Before(url, i)

UrlPath(url) ==
    LET sp == UrlSplit(url)
    IN  IF sp.scheme \in UsesParams /\ In(";", sp.path)
        THEN SplitParams(sp.path)
        ELSE sp.path

\* EndpointOutcome with a slip: the error is logged and not raised again
EndpointOutcomeSwallows(r) ==
    IF RequestFails(r)
    THEN [raised |-> FALSE, returned |-> TRUE, logs |-> <<"error">>,
          ret |-> <<>>]
    ELSE [raised |-> FALSE, returned |-> TRUE, logs |-> <<>>,
          ret |-> UrlPath(Get(r.headers, "Location", <<>>))
                    \o Chars("?format=openapi")]

\* get_api_endpoint on the response r to the GET of https://{domain}/api
EndpointOutcome(r) ==
    IF RequestFails(r)
    THEN [raised |-> TRUE, returned |-> FALSE, logs |-> <<"error">>,
          ret |-> <<>>]
    ELSE [raised |-> FALSE, returned |-> TRUE, logs |-> <<>>,
          ret |-> UrlPath(Get(r.headers, "Location", <<>>))
                    \o Chars("?format=openapi")]

Domains == {"example.com", "svc.test"}

NoDisc ==
    [op |-> "init", resps |-> <<>>, domain |-> "", entry |-> EmptyDict,
     raised |-> FALSE, returned |-> FALSE, logs |-> <<>>, result |-> <<>>,
     specs |-> EmptyDict, ret |-> <<>>]

DiscoverApis(resps) ==
    LET out == DiscoverFrom([apis |-> <<>>, logs |-> <<>>], resps, 1)
    IN  /\ disc' = [NoDisc EXCEPT !.op = "discover", !.resps = resps,
                       !.returned = TRUE, !.logs = out.logs,
                       !.result = out.apis]
        /\ UNCHANGED <<api_map, file, call>>

ParseApiSpecs(api_data) ==
    /\ disc' = [NoDisc EXCEPT !.op = "parse", !.entry = api_data,
                   !.returned = TRUE, !.specs = ParseApiSpecsOf(api_data)]
    /\ UNCHANGED <<api_map, file, call>>

GetApiEndpoint(domain, r) ==
    LET o == EndpointOutcome(r)
    IN  /\ disc' = [NoDisc EXCEPT !.op = "resolve", !.domain = domain,
                       !.resps = <<r>>, !.raised = o.raised,
                       !.returned = o.returned, !.logs = o.logs,
                       !.ret = o.ret]
        /\ UNCHANGED <<api_map, file, call>>

Init ==
    /\ api_map = Dict(<<>>)
    /\ file \in InitFiles
    /\ call = NoCall
    /\ disc = NoDisc

Next ==
    \/ \E fault \in LoadFaults : LoadApiConfig(fault)
    \/ \E name \in Names, cfg \in Configs, fault \in UpdateFaults :
           UpdateApiConfig(name, cfg, fault)
    \/ \E name \in Names : IntegrateApi(name)
    \/ \E fault \in LoadFaults : FreshLoadApiConfig(fault)

Spec == Init /\ [][Next]_vars

DiscInit ==
    /\ api_map = Dict(<<>>)
    /\ file = NoFile
    /\ call = NoCall
    /\ disc = NoDisc

\* The engine keeps nothing between calls (its HTTP session aside), so a
\* behaviour of the discovery component is one call and what it returned.
DiscNext ==
    \/ \E resps \in [1..Len(api_endpoints) -> RegistryResponses] :
           disc = NoDisc /\ DiscoverApis(resps)
    \/ \E api_data \in RawEntries : disc = NoDisc /\ ParseApiSpecs(api_data)
    \/ \E domain \in Domains, r \in EndpointResponses :
           disc = NoDisc /\ GetApiEndpoint(domain, r)

DiscSpec == DiscInit /\ [][DiscNext]_vars

(* ------------------------- properties: integration -------------------- *)

\* the serialization of the whole mapping m, when it has one
IsSerializationOf(f, m) ==
    LET e == Encode(m) IN e.ok /\ f = FileOf(e.toks)

FailedUpdate(c) == c.op = "update" /\ c.exc # ""

\* C1: after any call of update_api_config has returned, the configuration
\* file holds exactly the serialization of the whole in-memory mapping.
C1_FileHoldsMapping ==
    call.op = "update" => IsSerializationOf(file, api_map)

\* C3: no failure reaches the caller of discover_apis, load_api_config or
\* update_api_config, each returns normally and logs the failure;
\* get_api_endpoint is the only operation whose failure is raised.
C3_OnlyResolveRaises ==
    /\ call.op \in {"load", "fresh_load", "update"} =>
          ~call.raised /\ (call.exc # "" => Len(call.logs) >= 1)
    /\ disc.op = "discover" => ~disc.raised
    /\ disc.raised => disc.op = "resolve"

\* C4: a load_api_config that finds the file absent or not JSON leaves the
\* in-memory mapping as it was before the call.
C4_FailedLoadKeepsMapping ==
    [][(call'.op = "load" /\ (~file.exists \/ ~Loads(file.content).ok))
          => api_map' = api_map]_vars

\* C4 witness: a load failed on a file that is not JSON while the mapping
\* held an entry, and the entry is still there.
C4_Witness ==
    /\ call.op = "load"
    /\ call.exc = "JSONDecodeError"
    /\ Has(api_map, "pay")

\* C5: load_api_config, then update_api_config(name, cfg), then a reload of
\* the file by the same or a fresh object gives a mapping m with
\* m[name] = cfg that still has every other key with its value.
C5_ReloadYieldsUpdate ==
    [][(/\ call.op = "update"
        /\ call.afterLoad
        /\ call'.op \in {"load", "fresh_load"}
        /\ ~call'.raised)
          => LET m == IF call'.op = "load" THEN api_map' ELSE call'.fresh
             IN  /\ Has(m, call.name)
                 /\ Lookup(m, call.name) = call.cfg
                 /\ \A k \in Keys(api_map) :
                       Has(m, k) /\ Lookup(m, k) = Lookup(api_map, k)]_vars

\* C7: integrate_api calls the OpenAPI hook exactly when the name is a key
\* of the mapping and its configuration's type is "openapi", the Swagger
\* hook exactly when the name is a key and the type is "swagger", never
\* both, and leaves the mapping and the file as they were.
C7_Dispatch ==
    [][call'.op = "integrate"
          => LET present == \E i \in DOMAIN api_map.items :
                                api_map.items[i].k = call'.name
                 typeIs(t) ==
                     \E i \in DOMAIN api_map.items :
                        /\ api_map.items[i].k = call'.name
                        /\ \E j \in DOMAIN api_map.items[i].v.items :
                              /\ api_map.items[i].v.items[j].k = "type"
                              /\ api_map.items[i].v.items[j].v = Str(t)
             IN  /\ In("_integrate_openapi_api", call'.hooks)
                       <=> (present /\ typeIs("openapi"))
                 /\ In("_integrate_swagger_api", call'.hooks)
                       <=> (present /\ typeIs("swagger"))
                 /\ Len(call'.hooks) <= 1
                 /\ Len(call'.logs) = Len(call'.hooks)
                 /\ ~call'.raised
                 /\ api_map' = api_map
                 /\ file' = file]_vars

\* C7 witness: integrate_api has called the Swagger hook for an API whose
\* stored configuration has the type "swagger".
C7_Witness ==
    /\ call.op = "integrate"
    /\ call.hooks = <<"_integrate_swagger_api">>
    /\ Lookup(api_map, call.name) = SwaggerCfg

HooksFor(cfg) ==
    IF Lookup(cfg, "type") = Str("openapi")
    THEN <<"_integrate_openapi_api">>
    ELSE IF Lookup(cfg, "type") = Str("swagger")
    THEN <<"_integrate_swagger_api">>
    ELSE <<>>

\* what C10 says of the steps after a failed update_api_config: the next
\* integrate_api dispatches on the unsaved configuration, and the next
\* load_api_config that succeeds replaces the mapping by what the file holds
AfterFailedUpdate ==
    /\ (FailedUpdate(call) /\ call'.op = "integrate"
            /\ call'.name = call.name)
          => call'.hooks = HooksFor(call.cfg)
    /\ (FailedUpdate(call) /\ call'.op = "load" /\ call'.exc = "")
          => api_map' = Loads(file.content).val

\* C10 as stated: when the write of update_api_config fails, the call returns
\* normally, the mapping holds new_config under name, and the file does not
\* hold the serialization of the mapping.
C10_Original ==
    [][/\ FailedUpdate(call') =>
             /\ ~call'.raised
             /\ Lookup(api_map', call'.name) = call'.cfg
             /\ ~IsSerializationOf(file', api_map')
       /\ AfterFailedUpdate]_vars

\* C10, amended: when the write of update_api_config fails, the call returns
\* normally and the mapping holds new_config under name with its other
\* entries kept; the file is either left untouched (it could not be opened)
\* or left empty or cut short, so it holds the serialization of the mapping
\* only when it was left untouched and held that serialization already.
C10_FailedUpdateKeepsUnsaved ==
    [][/\ FailedUpdate(call') =>
             /\ ~call'.raised
             /\ Len(call'.logs) = 1
             /\ Has(api_map', call'.name)
             /\ Lookup(api_map', call'.name) = call'.cfg
             /\ \A k \in Keys(api_map) \ {call'.name} :
                   Has(api_map', k) /\ Lookup(api_map', k) = Lookup(api_map, k)
             /\ file' = file \/ (file'.exists /\ ~Loads(file'.content).ok)
             /\ IsSerializationOf(file', api_map') => file' = file
       /\ AfterFailedUpdate]_vars

\* C10 witness: an update_api_config failed while writing, the mapping holds
\* the unsaved configuration and the file is cut short.
C10_Witness ==
    /\ FailedUpdate(call)
    /\ call.exc = "TypeError"
    /\ Lookup(api_map, call.name) = call.cfg
    /\ file.exists
    /\ Len(file.content) > 0
    /\ ~Loads(file.content).ok

(* ------------------------- properties: discovery ---------------------- *)

\* the number of entries a response lists
Listed(r) == IF "apis" \in DOMAIN r.body THEN Len(r.body["apis"]) ELSE 0

\* where the records of registry i start in a result to which registry k
\* contributes counts[k] records
RECURSIVE Offset(_, _)
Offset(counts, i) ==
    IF i = 1 THEN 0 ELSE Offset(counts, i - 1) + counts[i - 1]

\* the record of a raw entry: each field read with "" as its default
IsRecordOf(rec, entry) ==
    /\ rec.name = (IF "name" \in DOMAIN entry THEN entry.name ELSE "")
    /\ rec.endpoint =
          (IF "endpoint" \in DOMAIN entry THEN entry.endpoint ELSE "")
    /\ rec.documentation_url =
          (IF "docUrl" \in DOMAIN entry THEN entry.docUrl ELSE "")
    /\ rec.specs = ParseApiSpecsOf(entry)

\* result is, registry after registry, one record per listed entry of the
\* registries that contribute
HoldsRecordsOf(result, resps, contributes) ==
    LET counts == [i \in DOMAIN resps |->
                     IF contributes[i] THEN Listed(resps[i]) ELSE 0]
    IN  /\ Len(result) = Offset(counts, Len(resps) + 1)
        /\ \A i \in DOMAIN resps : \A j \in 1..counts[i] :
              IsRecordOf(result[Offset(counts, i) + j],
                         resps[i].body["apis"][j])

\* a registry call that failed as the claims word it: a transport error or
\* a status outside 2xx
Non2xx(r) == r.transport \/ r.status < 200 \/ r.status > 299

\* a registry call that failed: a transport error or a 4xx or 5xx status
Rejected(r) == r.transport \/ (r.status >= 400 /\ r.status <= 599)

\* discover_apis logged one error per registry of failed, in order, returned
\* the records of all the others, and raised nothing
SkipsExactly(failed) ==
    /\ disc.returned
    /\ ~disc.raised
    /\ Len(disc.logs) = Cardinality({i \in DOMAIN disc.resps : failed[i]})
    /\ \A i \in DOMAIN disc.resps :
          failed[i] <=> In(api_endpoints[i], disc.logs)
    /\ HoldsRecordsOf(disc.result, disc.resps,
                      [i \in DOMAIN disc.resps |-> ~failed[i]])

C6_OneRecordPerEntry ==
    (disc.op = "discover"
        /\ \A i \in DOMAIN disc.resps :
              ~disc.resps[i].transport /\ disc.resps[i].status = 200)
       => /\ disc.returned
          /\ disc.logs = <<>>
          /\ HoldsRecordsOf(disc.result, disc.resps,
                            [i \in DOMAIN disc.resps |-> TRUE])

\* C6 witness: both registries answered 200, the first listing two entries
\* and the second one, and three records came back in that order.
C6_Witness ==
    /\ disc.op = "discover"
    /\ \A i \in DOMAIN disc.resps :
          ~disc.resps[i].transport /\ disc.resps[i].status = 200
    /\ Listed(disc.resps[1]) = 2
    /\ Listed(disc.resps[2]) = 1
    /\ Len(disc.result) = 3
    /\ disc.result[1].name = "svc"
    /\ disc.result[2].name = "pay"
    /\ disc.result[3].name = ""

\* C8: the SpecInfo of a raw entry has type "openapi" and url = specUrl (""
\* when missing) if its tags contain "openapi"; else type "swagger" and the
\* same url if they contain "swagger"; else neither type nor url.  Always
\* authentication = authType or "none", rate_limits = limits or {}.
C8_SpecInfo ==
    disc.op = "parse"
       => LET e    == disc.entry
              sp   == disc.specs
              tags == IF "tags" \in DOMAIN e THEN e.tags ELSE <<>>
              url  == IF "specUrl" \in DOMAIN e THEN e.specUrl ELSE ""
              typed(t) == /\ {"type", "url"} \subseteq DOMAIN sp
                          /\ sp.type = t
                          /\ sp.url = url
          IN  /\ In("openapi", tags) => typed("openapi")
              /\ (~In("openapi", tags) /\ In("swagger", tags))
                    => typed("swagger")
              /\ (~In("openapi", tags) /\ ~In("swagger", tags))
                    => ("type" \notin DOMAIN sp /\ "url" \notin DOMAIN sp)
              /\ DOMAIN sp \subseteq
                    {"type", "url", "authentication", "rate_limits"}
              /\ sp.authentication =
                    (IF "authType" \in DOMAIN e THEN e.authType ELSE "none")
              /\ sp.rate_limits =
                    (IF "limits" \in DOMAIN e THEN e.limits ELSE {})

\* C8 witness: an entry tagged both "swagger" and "openapi", without specUrl,
\* was parsed to type "openapi" with the url "".
C8_Witness ==
    /\ disc.op = "parse"
    /\ "tags" \in DOMAIN disc.entry
    /\ disc.entry.tags = <<"swagger", "openapi">>
    /\ "specUrl" \notin DOMAIN disc.entry
    /\ disc.specs.type = "openapi"
    /\ disc.specs.url = ""

HasScheme(url) ==
    \E c \in 2..Len(url) :
       /\ url[c] = ":"
       /\ url[1] \in Alpha
       /\ \A k \in 1..(c - 1) : url[k] \in SchemeChars

\* pre is what a URL may hold before its path: nothing, "scheme:",
\* "//authority" or "scheme://authority"
IsSchemeAndAuthority(pre) ==
    \E c \in 0..Len(pre) :
       /\ c = 0 \/ (pre[c] = ":" /\ HasScheme(SubSeq(pre, 1, c)))
       /\ \A k \in 1..(c - 1) : pre[k] # ":"
       /\ LET rest == SubSeq(pre, c + 1, Len(pre))
          IN  \/ rest = <<>>
              \/ /\ Len(rest) >= 2
                 /\ rest[1] = "/" /\ rest[2] = "/"
                 /\ \A k \in 3..Len(rest) : rest[k] \notin {"/", "?", "#"}

\* p is the path component of url: what stands between the scheme and
\* authority and the first of the parameters, the query and the fragment
IsPathOf(p, url) ==
    \E i \in 1..(Len(url) + 1) : \E j \in (i - 1)..Len(url) :
       /\ p = SubSeq(url, i, j)
       /\ \A k \in i..j : url[k] \notin {"?", "#"}
       /\ j = Len(url) \/ url[j + 1] \in {"?", "#", ";"}
       /\ (j < Len(url) /\ url[j + 1] = ";")
             => \A k \in (j + 1)..Len(url) :
                   url[k] = "/" => \E q \in (j + 1)..k : url[q] \in {"?", "#"}
       /\ \A k \in i..j :
             url[k] = ";" => \E q \in (k + 1)..j : url[q] = "/"
       /\ IsSchemeAndAuthority(SubSeq(url, 1, i - 1))
       /\ i = 1 => ~HasScheme(url)
       /\ (i = 1 \/ url[i - 1] = ":")
             => ~(j >= i + 1 /\ url[i] = "/" /\ url[i + 1] = "/")

\* get_api_endpoint returned the path of the Location header (of "" when
\* the header is missing) followed by "?format=openapi"
ReturnedPath ==
    LET r   == disc.resps[1]
        loc == IF "Location" \in DOMAIN r.headers
               THEN r.headers["Location"]
               ELSE <<>>
    IN  /\ disc.returned
        /\ ~disc.raised
        /\ \E n \in 0..Len(loc) :
              /\ Len(disc.ret) = n + 15
              /\ IsPathOf(SubSeq(disc.ret, 1, n), loc)
              /\ SubSeq(disc.ret, n + 1, n + 15) = Chars("?format=openapi")
        /\ loc = Chars("/v2/spec") =>
              disc.ret = <<"/", "v", "2", "/", "s", "p", "e", "c", "?", "f",
                           "o", "r", "m", "a", "t", "=", "o", "p", "e", "n",
                           "a", "p", "i">>

LoggedAndRaised ==
    /\ disc.raised
    /\ ~disc.returned
    /\ Len(disc.logs) = 1

====
